---- MODULE Spec2Model ----
(***************************************************************************)
(* A model of gcfg: the token-driven structural parser (readInto), the    *)
(* reflective value setter (set, fieldFold and the setter chain), the      *)
(* boolean vocabulary (gbool) and the error classifier (isFatal).          *)
(*                                                                         *)
(* Go strings are sequences of one-character strings, so that case         *)
(* folding, hyphen replacement, tag splitting and digit parsing are        *)
(* computed character by character as the code does.                       *)
(***************************************************************************)
EXTENDS Integers, Sequences, FiniteSets, TLC

VARIABLES
    cfgT,      \* dynamic type of the config argument handed to ReadInto
    cfg,       \* the destination record (the value config points to)
    cfg0,      \* the destination record as the caller handed it over
    tok,       \* readInto: the current token (tok, lit)
    left,      \* tokens (lines, for ReadInto of read.go) left before end of file
    lp,        \* ReadInto of read.go: the pieces of a long line read so far
    sect,      \* readInto: current section
    sectsub,   \* readInto: current subsection
    ret,       \* "run" while readInto loops, then "nil", "err" or "panic"
    err,       \* the error readInto returned (NoErr while none)
    nset,      \* number of set calls made by the current readInto call
    last,      \* arguments and result of the most recent set call
    fn         \* pure-function harness: [op, in, out]

vars == <<cfgT, cfg, cfg0, tok, left, lp, sect, sectsub, ret, err, nset, last, fn>>

(***************************************************************************)
(* Bounds of the model.                                                    *)
(***************************************************************************)
MaxScan == 10
\* an input of ReadInto of read.go holds at most MaxLines lines and pieces
MaxLines == 4

(***************************************************************************)
(* Characters and strings.                                                 *)
(***************************************************************************)
upperLetters ==
    <<"A", "B", "C", "D", "E", "F", "G", "H", "I", "J", "K", "L", "M",
      "N", "O", "P", "Q", "R", "S", "T", "U", "V", "W", "X", "Y", "Z">>
lowerLetters ==
    <<"a", "b", "c", "d", "e", "f", "g", "h", "i", "j", "k", "l", "m",
      "n", "o", "p", "q", "r", "s", "t", "u", "v", "w", "x", "y", "z">>
UpperCh == {upperLetters[i] : i \in DOMAIN upperLetters}
LowerCh == {lowerLetters[i] : i \in DOMAIN lowerLetters}
\* a letter that is neither upper- nor lower-case (such as U+7532)
OtherLetterCh == {"U+7532", "U+4E59"}

\* unicode.ToLower and unicode.ToUpper on the letters that have a case
toLower ==
    [c \in UpperCh |-> lowerLetters[CHOOSE i \in DOMAIN upperLetters : upperLetters[i] = c]]
toUpper ==
    [c \in LowerCh |-> upperLetters[CHOOSE i \in DOMAIN lowerLetters : lowerLetters[i] = c]]

\* unicode.IsLetter / IsLower / IsUpper on the model's characters
IsUpper(c) == c \in UpperCh
IsLower(c) == c \in LowerCh
IsLetter(c) == c \in UpperCh \cup LowerCh \cup OtherLetterCh

\* simple case folding of one character
FoldCh(c) == IF c \in UpperCh THEN toLower[c] ELSE c

\* strings.ToLower
ToLower(s) == [i \in 1..Len(s) |-> FoldCh(s[i])]

\* strings.EqualFold
EqualFold(s, t) ==
    /\ Len(s) = Len(t)
    /\ \A i \in 1..Len(s) : FoldCh(s[i]) = FoldCh(t[i])

\* strings.Replace(s, old, new, -1) for one-character old and new
Replace(s, old, new) == [i \in 1..Len(s) |-> IF s[i] = old THEN new ELSE s[i]]

\* strings.ContainsAny
ContainsAny(s, chars) == \E i \in 1..Len(s) : s[i] \in chars

\* strings.HasPrefix
HasPrefix(s, p) == Len(s) >= Len(p) /\ SubSeq(s, 1, Len(p)) = p

\* index of the first occurrence of character c in s, 0 when there is none
IndexCh(s, c) ==
    IF \E i \in 1..Len(s) : s[i] = c
    THEN CHOOSE i \in 1..Len(s) : s[i] = c /\ \A j \in 1..(i - 1) : s[j] # c
    ELSE 0

(***************************************************************************)
(* Go types (what reflect reports) and values.                             *)
(*   type : [kind, name, elem, fields, tu]; name = "" for an unnamed       *)
(*          type; elem holds the element type of a ptr, slice or map;      *)
(*          tu names the UnmarshalText method of the pointer type, if any  *)
(*   value: string -> sequence of characters, bool -> BOOLEAN, integer ->  *)
(*          Int, slice -> sequence, struct -> tuple of field values,       *)
(*          ptr -> [nil, v], map -> [nil, m] with m a function on keys     *)
(***************************************************************************)
Prim(kind, name) ==
    [kind |-> kind, name |-> name, elem |-> <<>>, fields |-> <<>>, tu |-> ""]
Named(name, t) == [t EXCEPT !.name = name]
WithTU(t, method) == [t EXCEPT !.tu = method]
PtrTo(t) == [kind |-> "ptr", name |-> "", elem |-> <<t>>, fields |-> <<>>, tu |-> ""]
SliceOf(t) == [kind |-> "slice", name |-> "", elem |-> <<t>>, fields |-> <<>>, tu |-> ""]
MapOf(k, t) == [kind |-> "map", name |-> "", elem |-> <<t, k>>, fields |-> <<>>, tu |-> ""]
Struct(name, fs) ==
    [kind |-> "struct", name |-> name, elem |-> <<>>, fields |-> fs, tu |-> ""]
Field(name, tg, t) == [name |-> name, tag |-> tg, type |-> t]
Elem(t) == t.elem[1]
Key(t) == t.elem[2]

T_string == Prim("string", "string")
T_bool == Prim("bool", "bool")
T_int == Prim("int", "int")

IntKinds == {"int", "int8", "int16", "int32", "int64",
             "uint", "uint8", "uint16", "uint32", "uint64", "uintptr"}

NilPtr == [nil |-> TRUE, v |-> <<>>]
Ref(v) == [nil |-> FALSE, v |-> v]
NilMap == [nil |-> TRUE, m |-> <<>>]
MakeMap == [nil |-> FALSE, m |-> <<>>]

\* reflect.Zero / reflect.New(t).Elem()
RECURSIVE Zero(_)
Zero(t) ==
    CASE t.kind = "string" -> <<>>
      [] t.kind = "bool" -> FALSE
      [] t.kind \in IntKinds -> 0
      [] t.kind = "slice" -> <<>>
      [] t.kind = "ptr" -> NilPtr
      [] t.kind = "map" -> NilMap
      [] t.kind = "struct" -> [i \in 1..Len(t.fields) |-> Zero(t.fields[i].type)]
      [] OTHER -> 0

(***************************************************************************)
(* Struct tags: newTag and fieldFold (set.go).                             *)
(***************************************************************************)
\* strings.Split(s, ","): the pieces of s between commas
RECURSIVE Split(_)
Split(s) ==
    LET i == IndexCh(s, ",")
    IN IF i = 0 THEN <<s>>
       ELSE <<SubSeq(s, 1, i - 1)>> \o Split(SubSeq(s, i + 1, Len(s)))

s_intEq == <<"i", "n", "t", "=">>

\* the last "int=" element after the first piece decides intMode
RECURSIVE TagIntMode(_, _)
TagIntMode(parts, acc) ==
    IF parts = <<>> THEN acc
    ELSE TagIntMode(Tail(parts),
                    IF HasPrefix(Head(parts), s_intEq)
                    THEN SubSeq(Head(parts), Len(s_intEq) + 1, Len(Head(parts)))
                    ELSE acc)

newTag(ts) ==
    LET s == Split(ts)
    IN [ident |-> s[1], intMode |-> TagIntMode(Tail(s), <<>>)]

EmptyTag == [ident |-> <<>>, intMode |-> <<>>]

\* reflect.Value.CanSet for a field of an addressable struct: the field is
\* exported, i.e. its name starts with an upper-case letter
CanSet(f) == f.name # <<>> /\ IsUpper(f.name[1])

\* the name fieldFold compares untagged field names with
FoldedName(name) ==
    (IF name # <<>> /\ IsLetter(name[1]) /\ ~IsLower(name[1]) /\ ~IsUpper(name[1])
     THEN <<"X">> ELSE <<>>) \o Replace(name, "-", "_")

\* a match function that compares Go names only, tagged or not
FieldMatches_goName(f, name) == CanSet(f) /\ EqualFold(FoldedName(name), f.name)

\* the match function fieldFold hands to FieldByNameFunc
FieldMatches(f, name) ==
    /\ CanSet(f)
    /\ IF newTag(f.tag).ident # <<>>
       THEN EqualFold(newTag(f.tag).ident, name)
       ELSE EqualFold(FoldedName(name), f.name)

\* reflect.Type.FieldByNameFunc on a struct without embedded fields: the one
\* field that satisfies match; several matching fields annihilate each other
FieldByNameFunc(t, name) ==
    LET hits == {i \in 1..Len(t.fields) : FieldMatches(t.fields[i], name)}
    IN IF Cardinality(hits) = 1 THEN CHOOSE i \in hits : TRUE ELSE 0

\* fieldFold: index of the field found (0: the invalid reflect.Value) and its tag
fieldFold(t, name) ==
    LET i == FieldByNameFunc(t, name)
    IN IF i = 0 THEN [idx |-> 0, tag |-> EmptyTag]
       ELSE [idx |-> i, tag |-> newTag(t.fields[i].tag)]

(***************************************************************************)
(* Errors.  typ is the dynamic type of the error value: "fmt" for an       *)
(* error made by fmt.Errorf, "extraData" for the extraData struct.  pos    *)
(* tells whether the message starts with a source position.                *)
(***************************************************************************)
NoErr == [typ |-> "nil", msg |-> "", pos |-> FALSE]
Errorf(msg) == [typ |-> "fmt", msg |-> msg, pos |-> FALSE]
errUnsupportedType == Errorf("unsupported type")

\* errors.go / isFatal: an error is fatal unless it is an extraData value
isFatal(e) == e.typ # "extraData"

(***************************************************************************)
(* Value parsers.                                                          *)
(***************************************************************************)
s_true == <<"t", "r", "u", "e">>
s_yes == <<"y", "e", "s">>
s_on == <<"o", "n">>
s_1 == <<"1">>
s_false == <<"f", "a", "l", "s", "e">>
s_no == <<"n", "o">>
s_off == <<"o", "f", "f">>
s_0 == <<"0">>

\* bool.go: the keys of gboolValues that map to true, and to false
gboolTrue == {s_true, s_yes, s_on, s_1}
gboolFalse == {s_false, s_no, s_off, s_0}

\* bool.go: gbool.UnmarshalText looks the text up as it is written
gbool_UnmarshalText(b, text) ==
    IF text \in gboolTrue THEN [err |-> NoErr, v |-> TRUE]
    ELSE IF text \in gboolFalse THEN [err |-> NoErr, v |-> FALSE]
    ELSE [err |-> Errorf("failed to parse as bool"), v |-> b]

\* read_test.go: unmarshalable.UnmarshalText
unmarshalable_UnmarshalText(u, text) ==
    IF text = <<"e", "r", "r", "o", "r">>
    THEN [err |-> Errorf("error"), v |-> u]
    ELSE [err |-> NoErr, v |-> text]

UnmarshalText(t, d, text) ==
    IF t.tu = "gbool" THEN gbool_UnmarshalText(d, text)
    ELSE unmarshalable_UnmarshalText(d, text)

\* digits and their values
DecDigits == {"0", "1", "2", "3", "4", "5", "6", "7", "8", "9"}
OctDigits == {"0", "1", "2", "3", "4", "5", "6", "7"}
HexDigits == DecDigits \cup {"a", "b", "c", "d", "e", "f", "A", "B", "C", "D", "E", "F"}
DigitVal(c) ==
    CASE c = "0" -> 0 [] c = "1" -> 1 [] c = "2" -> 2 [] c = "3" -> 3
      [] c = "4" -> 4 [] c = "5" -> 5 [] c = "6" -> 6 [] c = "7" -> 7
      [] c = "8" -> 8 [] c = "9" -> 9
      [] c \in {"a", "A"} -> 10 [] c \in {"b", "B"} -> 11 [] c \in {"c", "C"} -> 12
      [] c \in {"d", "D"} -> 13 [] c \in {"e", "E"} -> 14 [] c \in {"f", "F"} -> 15
      [] OTHER -> 0

RECURSIVE DigitsValue(_, _, _)
DigitsValue(s, base, acc) ==
    IF s = <<>> THEN acc
    ELSE DigitsValue(Tail(s), base, acc * base + DigitVal(Head(s)))

\* the whole of s as a number in the given base; ok only when s is a
\* non-empty run of digits of that base
ParseDigits(s, base, digits) ==
    IF s # <<>> /\ \A i \in 1..Len(s) : s[i] \in digits
    THEN [ok |-> TRUE, n |-> DigitsValue(s, base, 0)]
    ELSE [ok |-> FALSE, n |-> 0]

prefix0(val) == Len(val) > 1 /\ val[1] = "0"
prefix0x(val) == Len(val) > 2 /\ val[1] = "0" /\ val[2] \in {"x", "X"}

\* the answer of a parser: the number on success, the target d as it was
\* and an error otherwise
parsed(d, r, msg) ==
    IF r.ok THEN [err |-> NoErr, v |-> r.n] ELSE [err |-> Errorf(msg), v |-> d]

\* a decimal number with an optional sign
ParseDec(val) ==
    IF val # <<>> /\ val[1] = "-"
    THEN [ok |-> ParseDigits(Tail(val), 10, DecDigits).ok,
          n |-> 0 - ParseDigits(Tail(val), 10, DecDigits).n]
    ELSE IF val # <<>> /\ val[1] = "+" THEN ParseDigits(Tail(val), 10, DecDigits)
    ELSE ParseDigits(val, 10, DecDigits)

\* types.ParseInt (not among the sources): the whole value parsed in a base
\* that mode allows; "0x" selects hexadecimal and a leading "0" octal when
\* mode allows them; a sign goes with decimal only
ParseInt(d, val, mode) ==
    parsed(d,
           IF "Hex" \in mode /\ prefix0x(val)
           THEN ParseDigits(SubSeq(val, 3, Len(val)), 16, HexDigits)
           ELSE IF "Oct" \in mode /\ prefix0(val) /\ ~prefix0x(val)
           THEN ParseDigits(Tail(val), 8, OctDigits)
           ELSE IF "Dec" \in mode THEN ParseDec(val)
           ELSE IF mode = {"Hex"} THEN ParseDigits(val, 16, HexDigits)
           ELSE IF mode = {"Oct"} THEN ParseDigits(val, 8, OctDigits)
           ELSE [ok |-> FALSE, n |-> 0],
           "failed to parse as int")

\* types.ParseBool (not among the sources): the bool vocabulary, looked up
\* ignoring case
ParseBool(d, val) ==
    parsed(d, [ok |-> ToLower(val) \in gboolTrue \cup gboolFalse,
               n |-> ToLower(val) \in gboolTrue],
           "failed to parse as bool")

(***************************************************************************)
(* The setter chain (set.go).  A setter gets the type t and the value d of *)
(* the target it has the address of, and returns the error and the value   *)
(* the target holds afterwards.                                            *)
(***************************************************************************)
Unsupported(d) == [err |-> errUnsupportedType, v |-> d]

\* set.go intMode: the radixes a tag's int= letters name
intMode(mode) ==
    (IF ContainsAny(mode, {"d", "D"}) THEN {"Dec"} ELSE {})
      \cup (IF ContainsAny(mode, {"h", "H"}) THEN {"Hex"} ELSE {})
      \cup (IF ContainsAny(mode, {"o", "O"}) THEN {"Oct"} ELSE {})

\* set.go typeModes: the types parsed as decimal or hexadecimal only
typeModes == {"int", "int8", "int16", "int32", "int64",
              "uint", "uint8", "uint16", "uint32", "uint64", "big.Int"}

\* a setter that allows octal for every type
intModeDefault_octal(t) == {"Dec", "Hex", "Oct"}

intModeDefault(t) ==
    IF t.name \in typeModes THEN {"Dec", "Hex"} ELSE {"Dec", "Hex", "Oct"}

intSetterMode(t, tg) ==
    IF intMode(tg.intMode) = {} THEN intModeDefault(t) ELSE intMode(tg.intMode)

intSetter(t, d, val, tg) == ParseInt(d, val, intSetterMode(t, tg))

\* set.go boolSetter
boolSetter(t, d, val, tg) == ParseBool(d, val)

\* set.go stringSetter: only a *string passes the type assertion
stringSetter(t, d, val, tg) ==
    IF t.name = "string" THEN [err |-> NoErr, v |-> val] ELSE Unsupported(d)

typeSetter(t, d, val, tg) ==
    IF t.name = "big.Int" THEN intSetter(t, d, val, tg) ELSE Unsupported(d)

textUnmarshalerSetter(t, d, val, tg) ==
    IF t.tu = "" THEN Unsupported(d) ELSE UnmarshalText(t, d, val)

kindSetter(t, d, val, tg) ==
    CASE t.kind = "string" -> stringSetter(t, d, val, tg)
      [] t.kind = "bool" -> boolSetter(t, d, val, tg)
      [] t.kind \in IntKinds -> intSetter(t, d, val, tg)
      [] OTHER -> Unsupported(d)

IsSpace(c) == c \in {" ", "\t", "\n", "\r"}

\* a scan that stores the first character and does not look further
scanSetter_prefix(t, d, val, tg) ==
    IF t.kind = "string" /\ val # <<>>
    THEN [err |-> NoErr, v |-> <<val[1]>>]
    ELSE [err |-> Errorf("failed to parse"), v |-> d]

\* set.go scanSetter: fmt.Sscanf(val, "%v%c", d, &r).  For a target of kind
\* string %v stores the first space-delimited token; for a slice, struct,
\* map or pointer target fmt cannot scan the type.  Success is exactly one
\* item scanned and end of input after it.
scanSetter(t, d, val, tg) ==
    IF t.kind = "string"
    THEN LET skip == IF \E i \in 1..Len(val) : ~IsSpace(val[i])
                     THEN (CHOOSE i \in 1..Len(val) :
                              ~IsSpace(val[i]) /\ \A j \in 1..(i - 1) : IsSpace(val[j])) - 1
                     ELSE Len(val)
             rest == SubSeq(val, skip + 1, Len(val))
             n == IF \E i \in 1..Len(rest) : IsSpace(rest[i])
                  THEN (CHOOSE i \in 1..Len(rest) :
                           IsSpace(rest[i]) /\ \A j \in 1..(i - 1) : ~IsSpace(rest[j])) - 1
                  ELSE Len(rest)
             word == SubSeq(rest, 1, n)
         IN IF word = <<>> THEN [err |-> Errorf("failed to parse"), v |-> d]
            ELSE IF n < Len(rest)
            THEN [err |-> Errorf("failed to parse: extra characters"), v |-> word]
            ELSE [err |-> NoErr, v |-> word]
    ELSE [err |-> Errorf("failed to parse"), v |-> d]

\* set.go setters: the chain, in the order set tries it
NSetters == 4
setterAt(i, t, d, val, tg) ==
    CASE i = 1 -> typeSetter(t, d, val, tg)
      [] i = 2 -> textUnmarshalerSetter(t, d, val, tg)
      [] i = 3 -> kindSetter(t, d, val, tg)
      [] OTHER -> scanSetter(t, d, val, tg)

\* a loop that goes on to the next setter after any error
RECURSIVE runSetters_goesOn(_, _, _, _, _)
runSetters_goesOn(i, t, d, val, tg) ==
    IF setterAt(i, t, d, val, tg).err # NoErr /\ i < NSetters
    THEN runSetters_goesOn(i + 1, t, d, val, tg)
    ELSE setterAt(i, t, d, val, tg)

\* the loop of set over setters: the first setter that does not answer
\* errUnsupportedType decides
RECURSIVE runSetters(_, _, _, _, _)
runSetters(i, t, d, val, tg) ==
    IF setterAt(i, t, d, val, tg).err = errUnsupportedType /\ i < NSetters
    THEN runSetters(i + 1, t, d, val, tg)
    ELSE setterAt(i, t, d, val, tg)

\* the place in setters of the setter whose answer the loop of set returns
RECURSIVE decidedBy(_, _, _, _, _)
decidedBy(i, t, d, val, tg) ==
    IF setterAt(i, t, d, val, tg).err = errUnsupportedType /\ i < NSetters
    THEN decidedBy(i + 1, t, d, val, tg)
    ELSE i

(***************************************************************************)
(* set (set.go).  The result is the destination after the call, the error  *)
(* returned, and whether the call panicked.                                *)
(***************************************************************************)
SetResult(c, e, p) == [cfg |-> c, err |-> e, panic |-> p]

\* a setter that takes every slice type, named or not, as multi-valued
isMulti_anySlice(vt) == vt.kind = "slice"

\* set.go line 236: multi-value if unnamed slice type
isMulti(vt) == vt.name = "" /\ vt.kind = "slice"

\* set.go line 242: a pointer is set through
isDeref(et) == et.name = "" /\ et.kind = "ptr"

\* set.go lines 234-241: the type of vVal, the value set assigns to
valType(vt) == IF isMulti(vt) THEN Elem(vt) ELSE vt

\* set.go lines 234-241: vVal is a new element of a multi-valued field, the
\* field itself otherwise
valOf(vVar, vt) == IF isMulti(vt) THEN Zero(valType(vt)) ELSE vVar

\* set.go line 243: a nil pointer gets a newly allocated target
isNew(vVar, vt) == isDeref(valType(vt)) /\ valOf(vVar, vt).nil

\* set.go lines 244-253: the type of the target whose address the setters get
targetType(vt) == IF isDeref(valType(vt)) THEN Elem(valType(vt)) ELSE valType(vt)

\* set.go lines 244-253: the value the target holds before the setters run
target(vVar, vt) ==
    IF isNew(vVar, vt) THEN Zero(targetType(vt))
    ELSE IF isDeref(valType(vt)) THEN valOf(vVar, vt).v
    ELSE valOf(vVar, vt)

\* a setter that writes a string after what the field already holds
store_accumulate(vVar, vt, r) ==
    IF r.err = NoErr /\ vt.kind = "string" THEN vVar \o r.v
    ELSE IF r.err = NoErr /\ isMulti(vt) THEN Append(vVar, r.v)
    ELSE IF r.err = NoErr THEN r.v
    ELSE vVar

\* set.go lines 255-276: what the field holds once the setters have answered
\* r.  A failed setter wrote, if at all, through the address it was given: a
\* new element or a new pointer target is dropped, an existing target keeps
\* what was written.
store(vVar, vt, r) ==
    IF r.err = NoErr
    THEN IF isMulti(vt)
         THEN Append(vVar, IF isDeref(valType(vt)) THEN Ref(r.v) ELSE r.v)
         ELSE IF isDeref(valType(vt)) THEN Ref(r.v) ELSE r.v
    ELSE IF isMulti(vt) \/ isNew(vVar, vt) THEN vVar
    ELSE IF isDeref(valType(vt)) THEN Ref(r.v) ELSE r.v

\* the record and the error after the setters have answered r for field i
stored(rec, i, vt, r) ==
    [v |-> [rec EXCEPT ![i] = store(rec[i], vt, r)], err |-> r.err]

\* set.go lines 234-276: field i (of type vt, with tag tg) of section record
\* rec
setField(rec, i, vt, tg, value) ==
    stored(rec, i, vt,
           runSetters(1, targetType(vt), target(rec[i], vt), value, tg))

\* the variable part of set once fieldFold has answered f
setFound(st, rec, f, value) ==
    IF f.idx = 0
    THEN [v |-> rec, err |-> Errorf("invalid variable")]
    ELSE setField(rec, f.idx, st.fields[f.idx].type, f.tag, value)

\* set.go lines 228-276: the variable of section record rec (of struct type
\* st); v is the record afterwards
setVar(st, rec, name, value) == setFound(st, rec, fieldFold(st, name), value)

\* a map that holds the new entry only
MapPut_only(m, k, x) == [j \in {k} |-> x]

\* m with key k bound to x
MapPut(m, k, x) == [j \in (DOMAIN m) \cup {k} |-> IF j = k THEN x ELSE m[j]]

\* a setter that makes a new record for every assignment
recordOf_new(vSect, vType, sub) == Zero(vType)

\* set.go lines 213-220: the record of subsection sub in map section vSect,
\* a new zero record when the map has none
recordOf(vSect, vType, sub) ==
    IF ~vSect.nil /\ sub \in DOMAIN vSect.m THEN vSect.m[sub] ELSE Zero(vType)

\* set.go lines 210-219: the map afterwards, made when nil, holding the
\* record pv under sub
mapWith(vSect, sub, pv) ==
    [nil |-> FALSE, m |-> MapPut(IF vSect.nil THEN MakeMap.m ELSE vSect.m, sub, pv)]

\* set.go lines 210-220: the destination and the error once the
\* variable part has answered r for the record of subsection sub
mapDone(c, i, sub, r) ==
    SetResult([c EXCEPT ![i] = mapWith(c[i], sub, r.v)], r.err, FALSE)

\* the destination and the error once the variable part has answered r for
\* the struct that section field i holds
structDone(c, i, r) == SetResult([c EXCEPT ![i] = r.v], r.err, FALSE)

\* a setter that takes no notice of the subsection of a struct section
setSect_anySub(c, i, vst, sub, name, value) ==
    IF vst.kind = "struct" THEN structDone(c, i, setVar(vst, c[i], name, value))
    ELSE SetResult(c, NoErr, TRUE)

\* set.go lines 202-227 and the call of the variable part: section field i
\* of type vst
setSect(c, i, vst, sub, name, value) ==
    IF vst.kind = "map"
    THEN IF \/ Key(vst).kind # "string"
            \/ Elem(vst).kind # "ptr"
            \/ Elem(Elem(vst)).kind # "struct"
         THEN SetResult(c, NoErr, TRUE)
         ELSE mapDone(c, i, sub,
                      setVar(Elem(Elem(vst)),
                             recordOf(c[i], Elem(Elem(vst)), sub), name, value))
    ELSE IF vst.kind # "struct"
    THEN SetResult(c, NoErr, TRUE)
    ELSE IF sub # <<>>
    THEN SetResult(c, Errorf("invalid subsection"), FALSE)
    ELSE structDone(c, i, setVar(vst, c[i], name, value))

\* set.go lines 198-201: the section part of set once fieldFold has answered f
setSectFound(vCfgT, c, f, sub, name, value) ==
    IF f.idx = 0
    THEN SetResult(c, Errorf("invalid section"), FALSE)
    ELSE setSect(c, f.idx, vCfgT.fields[f.idx].type, sub, name, value)

set(ct, c, sct, sub, name, value) ==
    IF ~(ct.kind = "ptr" /\ Elem(ct).kind = "struct")
    THEN SetResult(c, NoErr, TRUE)
    ELSE setSectFound(Elem(ct), c, fieldFold(Elem(ct), sct), sub, name, value)

(***************************************************************************)
(* The destination type of the parser model (the shapes of read_test.go:   *)
(* cBasic, cBool, cMulti and cSubs in one config).                         *)
(***************************************************************************)
s_section == <<"s", "e", "c", "t", "i", "o", "n">>
s_sub == <<"s", "u", "b">>
s_name == <<"n", "a", "m", "e">>
s_bool == <<"b", "o", "o", "l">>
s_multi == <<"m", "u", "l", "t", "i">>
s_nonmulti == <<"n", "o", "n", "m", "u", "l", "t", "i">>
s_nonexistent == <<"x">>
s_a == <<"a">>
s_A == <<"A">>
s_b == <<"b">>
s_quoted_b == <<"\"", "b", "\"">>
s_quote == <<"\"">>
\* a quoted string that is not closed (the literal of "string not terminated")
s_open_xy == <<"\"", "x", "y">>

T_nonMulti == Named("nonMulti", SliceOf(T_string))

cSectionT ==
    Struct("cSection",
           << Field(<<"N", "a", "m", "e">>, <<>>, T_string),
              Field(<<"B", "o", "o", "l">>, <<>>, T_bool),
              Field(<<"M", "u", "l", "t", "i">>, <<>>, SliceOf(T_string)),
              Field(<<"N", "o", "n", "M", "u", "l", "t", "i">>, <<>>, T_nonMulti) >>)
\* the record of a subsection: cSubsS1 with the variable of cBoolS1 next to
\* its own, so that one record holds two variables
cSubsS1T ==
    Struct("cSubsS1",
           << Field(<<"N", "a", "m", "e">>, <<>>, T_string),
              Field(<<"B", "o", "o", "l">>, <<>>, T_bool) >>)
ConfigT ==
    Struct("Config",
           << Field(<<"S", "e", "c", "t", "i", "o", "n">>, <<>>, cSectionT),
              Field(<<"S", "u", "b">>, <<>>, MapOf(T_string, PtrTo(cSubsS1T))) >>)

\* positions of the fields above in a config value
iSection == 1
iSub == 2
iName == 1
iBool == 2
iMulti == 3
iNonMulti == 4

(***************************************************************************)
(* The scanner, as readInto sees it: a source of tokens that ends with     *)
(* EOF.  An input holds at most MaxScan tokens before its end.             *)
(***************************************************************************)
Tok(k, lit) == [tok |-> k, lit |-> lit]
EOFtok == Tok("EOF", <<>>)

IdentLits == {s_section, s_sub, s_name, s_bool, s_multi, s_nonmulti, s_nonexistent}
StringLits == {s_a, s_A, s_quoted_b, s_quote, s_open_xy}

Tokens ==
    {Tok(k, <<>>) : k \in {"EOF", "EOL", "COMMENT", "LBRACK", "RBRACK", "ASSIGN", "ILLEGAL"}}
      \cup {Tok("IDENT", l) : l \in IdentLits}
      \cup {Tok("STRING", l) : l \in StringLits}

\* what the next call of Scan may return, with l tokens left before EOF
Scan(l) == IF l = 0 THEN {EOFtok} ELSE Tokens
Left(l, t) == IF t.tok = "EOF" THEN 0 ELSE l - 1

\* unquote (FIXME in the source): strips the first and the last byte of a
\* literal that starts with a quote; s[1 : len(s)-1] panics when len(s) = 1
unquote(s) ==
    IF s # <<>> /\ s[1] = "\""
    THEN IF Len(s) < 2 THEN [panic |-> TRUE, s |-> <<>>]
         ELSE [panic |-> FALSE, s |-> SubSeq(s, 2, Len(s) - 1)]
    ELSE [panic |-> FALSE, s |-> s]

defaultValue == s_true

\* errfn of readInto: an error that carries the position of the token
errfn(msg) == [typ |-> "fmt", msg |-> msg, pos |-> TRUE]

EndsLine(t) == t.tok \in {"EOL", "EOF", "COMMENT"}

NoCall == [sect |-> <<>>, sub |-> <<>>, name |-> <<>>, value |-> <<>>,
           err |-> NoErr, panic |-> FALSE]
NoFn == [op |-> "", in |-> <<>>, out |-> <<>>]

(***************************************************************************)
(* readInto: one action per case of the switch in its loop.  Each action   *)
(* is a whole iteration: the scans, the checks and the call of set.        *)
(***************************************************************************)
\* the state after an iteration that scanned up to token t
Step(rt, e, t, l, s, ss) ==
    /\ ret' = rt
    /\ err' = e
    /\ tok' = t
    /\ left' = l
    /\ sect' = s
    /\ sectsub' = ss

NoSet == UNCHANGED <<cfgT, cfg, cfg0, lp, nset, last, fn>>

\* case token.EOF
CaseEOF ==
    /\ ret = "run"
    /\ tok.tok = "EOF"
    /\ Step("nil", NoErr, tok, left, sect, sectsub)
    /\ NoSet

\* case token.EOL, token.COMMENT
CaseEOL ==
    /\ ret = "run"
    /\ tok.tok \in {"EOL", "COMMENT"}
    /\ \E t \in Scan(left) : Step("run", NoErr, t, Left(left, t), sect, sectsub)
    /\ NoSet

\* the rest of a section header from the token t2 that follows the name
HeaderRest(name, t2, l2) ==
    IF t2.tok = "STRING"
    THEN LET u == unquote(t2.lit)
         IN IF u.panic THEN Step("panic", NoErr, t2, l2, name, <<>>)
            ELSE IF u.s = <<>>
            THEN Step("err", errfn("empty subsection name"), t2, l2, name, u.s)
            ELSE \E t3 \in Scan(l2) :
                   IF t3.tok # "RBRACK"
                   THEN Step("err", errfn("expected right bracket"),
                             t3, Left(l2, t3), name, u.s)
                   ELSE \E t4 \in Scan(Left(l2, t3)) :
                          IF ~EndsLine(t4)
                          THEN Step("err", errfn("expected EOL, EOF, or comment"),
                                    t4, Left(Left(l2, t3), t4), name, u.s)
                          ELSE Step("run", NoErr, t4, Left(Left(l2, t3), t4), name, u.s)
    ELSE IF t2.tok # "RBRACK"
    THEN Step("err", errfn("expected subsection name or right bracket"),
              t2, l2, name, <<>>)
    ELSE \E t4 \in Scan(l2) :
           IF ~EndsLine(t4)
           THEN Step("err", errfn("expected EOL, EOF, or comment"),
                     t4, Left(l2, t4), name, <<>>)
           ELSE Step("run", NoErr, t4, Left(l2, t4), name, <<>>)

\* case token.LBRACK
CaseLBRACK ==
    /\ ret = "run"
    /\ tok.tok = "LBRACK"
    /\ \E t1 \in Scan(left) :
         IF t1.tok # "IDENT"
         THEN Step("err", errfn("expected section name"), t1, Left(left, t1), sect, sectsub)
         ELSE \E t2 \in Scan(Left(left, t1)) :
                HeaderRest(t1.lit, t2, Left(Left(left, t1), t2))
    /\ NoSet

\* a parser that goes on with the next line whatever set answered
SetReturned_goesOn(r, n, v, t, l) ==
    /\ cfg' = r.cfg
    /\ nset' = nset + 1
    /\ last' = [sect |-> sect, sub |-> sectsub, name |-> n, value |-> v,
                err |-> r.err, panic |-> r.panic]
    /\ UNCHANGED <<cfgT, cfg0, lp, fn>>
    /\ Step("run", NoErr, t, l, sect, sectsub)

\* the state after set answered r for variable n and value v, with t the
\* token scanned last: a panic unwinds, an error is returned, otherwise the
\* loop goes on
SetReturned(r, n, v, t, l) ==
    /\ cfg' = r.cfg
    /\ nset' = nset + 1
    /\ last' = [sect |-> sect, sub |-> sectsub, name |-> n, value |-> v,
                err |-> r.err, panic |-> r.panic]
    /\ UNCHANGED <<cfgT, cfg0, lp, fn>>
    /\ IF r.panic THEN Step("panic", NoErr, t, l, sect, sectsub)
       ELSE IF r.err # NoErr THEN Step("err", r.err, t, l, sect, sectsub)
       ELSE Step("run", NoErr, t, l, sect, sectsub)

\* err := set(config, sect, sectsub, n, v) and the return that follows it
CallSet(n, v, t, l) == SetReturned(set(cfgT, cfg, sect, sectsub, n, v), n, v, t, l)

Fail(e, t, l) == Step("err", e, t, l, sect, sectsub) /\ NoSet

\* a parser that never asks whether a section header has been read
NoSection_never(s) == FALSE

\* if sect == "": no section header has been read
NoSection(s) == s = <<>>

\* case token.IDENT
CaseIDENT ==
    /\ ret = "run"
    /\ tok.tok = "IDENT"
    /\ IF NoSection(sect)
       THEN Fail(errfn("expected section header"), tok, left)
       ELSE \E t1 \in Scan(left) :
              LET l1 == Left(left, t1)
              IN IF EndsLine(t1) THEN CallSet(tok.lit, defaultValue, t1, l1)
                 ELSE IF t1.tok # "ASSIGN" THEN Fail(errfn("expected '='"), t1, l1)
                 ELSE \E t2 \in Scan(l1) :
                        LET l2 == Left(l1, t2)
                            u == unquote(t2.lit)
                        IN IF t2.tok # "STRING" THEN Fail(errfn("expected value"), t2, l2)
                           ELSE IF u.panic
                           THEN Step("panic", NoErr, t2, l2, sect, sectsub) /\ NoSet
                           ELSE \E t3 \in Scan(l2) :
                                  IF ~EndsLine(t3)
                                  THEN Fail(errfn("expected EOL, EOF, or comment"),
                                            t3, Left(l2, t3))
                                  ELSE CallSet(tok.lit, u.s, t3, Left(l2, t3))

\* default: any other token
CaseDefault ==
    /\ ret = "run"
    /\ tok.tok \notin {"EOF", "EOL", "COMMENT", "LBRACK", "IDENT"}
    /\ Step("err", [typ |-> "fmt", msg |-> "invalid token", pos |-> TRUE],
            tok, left, sect, sectsub)
    /\ NoSet

(***************************************************************************)
(* ReadInto: config is handed over by the caller, zeroed or holding what   *)
(* an earlier read stored; readInto scans the first token before its loop. *)
(***************************************************************************)
ZeroConfig == Zero(ConfigT)
\* the destination after an earlier read of
\*   [section] name=a multi=a  [sub "a"] name=a
FilledConfig ==
    << <<s_a, FALSE, <<s_a>>, <<>> >>,
       [nil |-> FALSE, m |-> MapPut(<<>>, s_a, <<s_a, FALSE>>)] >>

Init ==
    /\ cfgT \in {PtrTo(ConfigT), ConfigT}
    /\ cfg \in {ZeroConfig, FilledConfig}
    /\ cfg0 = cfg
    /\ \E t \in Scan(MaxScan) : tok = t /\ left = Left(MaxScan, t)
    /\ lp = <<>>
    /\ sect = <<>>
    /\ sectsub = <<>>
    /\ ret = "run"
    /\ err = NoErr
    /\ nset = 0
    /\ last = NoCall
    /\ fn = NoFn

Next ==
    \/ CaseEOF
    \/ CaseEOL
    \/ CaseLBRACK
    \/ CaseIDENT
    \/ CaseDefault

Spec == Init /\ [][Next]_vars

(***************************************************************************)
(* Properties of the parser and the setter, checked under Spec.            *)
(***************************************************************************)
\* this step made a call of set
SetCalled == nset' = nset + 1

\* this step made a call of set that returned (no panic) for variable n of
\* section s, subsection ss
SetFor(s, ss, n) ==
    /\ SetCalled
    /\ ~last'.panic
    /\ last'.sect = s
    /\ last'.sub = ss
    /\ last'.name = n

\* C1: a variable line met before any section header makes ReadInto return
\* the error "expected section header"; no call of set is made and the
\* destination is as the caller handed it over, for the zero and the filled
\* destination and for the pointer and the non-pointer config alike.
C1_VariableBeforeSection ==
    [][ (ret = "run" /\ sect = <<>> /\ tok.tok = "IDENT")
          => /\ ret' = "err"
             /\ err' = errfn("expected section header")
             /\ nset' = 0
             /\ cfg' = cfg0 ]_vars

C1_Witness ==
    /\ ret = "err"
    /\ err = errfn("expected section header")
    /\ tok = Tok("IDENT", s_name)
    /\ cfgT = ConfigT
    /\ cfg = FilledConfig

\* C2: Multi (an unnamed slice type) is multi-valued: every successful
\* assignment appends its value at the end, so the slice is what it held
\* before followed by the assigned values in order, one element each;
\* NonMulti (a named slice type) is not: assigning to it fails and it stays
\* as it was.  No other step changes either.
C2_MultiAppends ==
    [][ /\ SetFor(s_section, <<>>, s_multi)
          => /\ last'.err = NoErr
             /\ cfg'[iSection][iMulti] = Append(cfg[iSection][iMulti], last'.value)
        /\ SetFor(s_section, <<>>, s_nonmulti)
          => /\ last'.err # NoErr
             /\ cfg'[iSection][iNonMulti] = cfg[iSection][iNonMulti]
        /\ ~SetFor(s_section, <<>>, s_multi)
          => cfg'[iSection][iMulti] = cfg[iSection][iMulti]
        /\ cfg'[iSection][iNonMulti] = <<>> ]_vars

C2_Witness ==
    /\ cfg0 = FilledConfig
    /\ cfg[iSection][iMulti] = <<s_a, s_b, s_true>>
    /\ nset = 2

SubBefore(k) ==
    IF k \in DOMAIN cfg[iSub].m THEN cfg[iSub].m[k] ELSE Zero(cSubsS1T)

\* C4: a call of set for the map section Sub leaves a map that is not nil
\* and holds the keys it held before and the key of the call, compared
\* exactly ("A" is not "a"; a header without subsection gives the empty
\* key); the records under the other keys are as before, and the record
\* under the key of the call is the one held before (a zero record when
\* the key is new) with only the assigned variable changed.  No other step
\* changes the map.
C4_MapEntries ==
    [][ /\ (SetCalled /\ ~last'.panic /\ last'.sect = s_sub)
          => /\ last'.sub = sectsub
             /\ ~cfg'[iSub].nil
             /\ DOMAIN cfg'[iSub].m = DOMAIN cfg[iSub].m \cup {last'.sub}
             /\ \A j \in DOMAIN cfg[iSub].m \ {last'.sub} :
                  cfg'[iSub].m[j] = cfg[iSub].m[j]
             /\ cfg'[iSub].m[last'.sub] =
                  IF last'.err # NoErr THEN SubBefore(last'.sub)
                  ELSE IF last'.name = s_name
                  THEN [SubBefore(last'.sub) EXCEPT ![iName] = last'.value]
                  ELSE [SubBefore(last'.sub) EXCEPT
                          ![iBool] = (ToLower(last'.value) \in gboolTrue)]
        /\ ~(SetCalled /\ ~last'.panic /\ last'.sect = s_sub)
          => cfg'[iSub] = cfg[iSub] ]_vars

C4_Witness ==
    /\ cfg0 = FilledConfig
    /\ DOMAIN cfg[iSub].m = {s_a, s_A}
    /\ cfg[iSub].m[s_a] = <<s_a, FALSE>>
    /\ cfg[iSub].m[s_A] = <<s_true, TRUE>>
    /\ nset = 2

\* the destination holds everything it held before this step: the struct
\* section is as it was and so is every record the map section held
EffectsRemain ==
    /\ cfg'[iSection] = cfg[iSection]
    /\ \A j \in DOMAIN cfg[iSub].m :
         j \in DOMAIN cfg'[iSub].m /\ cfg'[iSub].m[j] = cfg[iSub].m[j]

NoDestination == {"invalid section", "invalid subsection", "invalid variable"}

\* C10: the error set returns for a section, subsection or variable without
\* binding is an extraData value and isFatal is false for it; isFatal is
\* true for every other error readInto returns.
C10_NoDestinationNotFatal ==
    /\ (nset > 0 /\ last.err.msg \in NoDestination)
         => (last.err.typ = "extraData" /\ ~isFatal(last.err))
    /\ (ret = "err" /\ err.msg \notin NoDestination) => isFatal(err)

(***************************************************************************)
(* The setters on their own: a value is handed to the code that parses it. *)
(* The parser variables rest.                                              *)
(***************************************************************************)
parserVars == <<cfgT, cfg, cfg0, tok, left, lp, sect, sectsub, ret, err, nset, last>>

Idle ==
    /\ cfgT = PtrTo(ConfigT)
    /\ cfg = ZeroConfig
    /\ cfg0 = ZeroConfig
    /\ tok = EOFtok
    /\ left = 0
    /\ lp = <<>>
    /\ sect = <<>>
    /\ sectsub = <<>>
    /\ ret = "nil"
    /\ err = NoErr
    /\ nset = 0
    /\ last = NoCall

\* the call op of the harness with result out
Called(op, out) ==
    /\ fn.op = ""
    /\ fn' = [fn EXCEPT !.op = op, !.out = out]
    /\ UNCHANGED parserVars

\* the spellings of s in upper- and lower-case letters
CaseVariants(s) ==
    { [i \in 1..Len(s) |-> IF i \in U /\ s[i] \in LowerCh THEN toUpper[s[i]] ELSE s[i]] :
        U \in SUBSET (1..Len(s)) }

\* read_test.go, type:bool: the values that are no bool
s_maybe == <<"m", "a", "y", "b", "e">>
s_t == <<"t">>
s_truer == <<"t", "r", "u", "e", "r">>
s_2 == <<"2">>
s_minus1 == <<"-", "1">>

BoolTexts ==
    UNION {CaseVariants(w) : w \in gboolTrue \cup gboolFalse}
      \cup {s_maybe, s_t, s_truer, s_2, s_minus1, <<>>}

BoolInit ==
    /\ Idle
    /\ \E b \in BOOLEAN, s \in BoolTexts \cup {defaultValue} :
         fn = [op |-> "", in |-> [d |-> b, val |-> s], out |-> [err |-> NoErr, v |-> b]]

\* gbool.UnmarshalText of bool.go on a *gbool
Call_gbool_UnmarshalText ==
    Called("gbool.UnmarshalText", gbool_UnmarshalText(fn.in.d, fn.in.val))

\* the setters of set.go on a *bool
Call_boolSetter ==
    Called("boolSetter", runSetters(1, T_bool, fn.in.d, fn.in.val, EmptyTag))

BoolNext ==
    \/ Call_gbool_UnmarshalText
    \/ Call_boolSetter

BoolSpec == BoolInit /\ [][BoolNext]_vars

\* C5: a bool variable takes a value if and only if the value is, ignoring
\* case, one of true, yes, on, 1 (the field becomes true) or false, no, off,
\* 0 (the field becomes false); the value "true" of a variable written
\* without value is among them; every other value gives an error and leaves
\* the field as it was.
C5_BoolVocabulary ==
    fn.op # ""
      => IF ToLower(fn.in.val) \in gboolTrue THEN fn.out = [err |-> NoErr, v |-> TRUE]
         ELSE IF ToLower(fn.in.val) \in gboolFalse THEN fn.out = [err |-> NoErr, v |-> FALSE]
         ELSE fn.out.err # NoErr /\ fn.out.v = fn.in.d

(***************************************************************************)
(* Integers: a value is assigned to an integer field of some type and tag. *)
(***************************************************************************)
\* the built-in integer types that typeModes lists
BuiltinInts ==
    {Prim(k, k) : k \in {"int", "int8", "int16", "int32", "int64",
                         "uint", "uint8", "uint16", "uint32", "uint64"}}
T_uintptr == Prim("uintptr", "uintptr")
T_FileMode == Named("os.FileMode", Prim("uint32", "uint32"))
T_bigInt == Struct("big.Int", <<>>)
IntTypes == BuiltinInts \cup {T_uintptr, T_FileMode, T_bigInt}

\* the gcfg tag of a field without identifier and with int=letters
IntTag(letters) == <<",">> \o s_intEq \o letters
IntLetters ==
    {<<"d">>, <<"h">>, <<"o">>, <<"d", "h">>, <<"d", "o">>, <<"h", "o">>,
     <<"d", "h", "o">>, <<"O">>, <<"x">>, <<>>}
IntTags == {<<>>} \cup {IntTag(l) : l \in IntLetters}

s_010 == <<"0", "1", "0">>
s_0777 == <<"0", "7", "7", "7">>
s_10 == <<"1", "0">>
s_0x10 == <<"0", "x", "1", "0">>
s_ff == <<"f", "f">>
s_08 == <<"0", "8">>
IntTexts == {s_010, s_0777, s_10, s_0x10, s_ff, s_08, s_minus1, s_0, <<>>}

IntInit ==
    /\ Idle
    /\ \E t \in IntTypes, tg \in IntTags, s \in IntTexts :
         fn = [op |-> "", in |-> [t |-> t, tag |-> tg, val |-> s],
               out |-> [err |-> NoErr, v |-> 0]]

\* the setters of set.go on a pointer to an integer of type fn.in.t, for a
\* field with the gcfg tag fn.in.tag
Call_intSetter ==
    Called("intSetter", runSetters(1, fn.in.t, 0, fn.in.val, newTag(fn.in.tag)))

IntNext == Call_intSetter

IntSpec == IntInit /\ [][IntNext]_vars

\* the radixes the letters after int= name, upper- or lower-case
Named_(letters) ==
    {m \in {"Dec", "Hex", "Oct"} :
        \E i \in 1..Len(letters) :
            \/ m = "Dec" /\ letters[i] \in {"d", "D"}
            \/ m = "Hex" /\ letters[i] \in {"h", "H"}
            \/ m = "Oct" /\ letters[i] \in {"o", "O"}}

\* the letters after int= in a tag of IntTags
LettersOf(tg) == IF tg = <<>> THEN <<>> ELSE SubSeq(tg, Len(s_intEq) + 2, Len(tg))

\* the radix policy as stated
Policy(t, tg) ==
    IF Named_(LettersOf(tg)) # {} THEN Named_(LettersOf(tg))
    ELSE IF t \in BuiltinInts \cup {T_bigInt} THEN {"Dec", "Hex"}
    ELSE {"Dec", "Hex", "Oct"}

s_alias == <<"a", "l", "i", "a", "s">>
s_other == <<"o", "t", "h", "e", "r">>
s_hidden == <<"h", "i", "d", "d", "e", "n">>
s_hyphen_name == <<"i", "n", "-", "n", "a", "m", "e">>
s_under_name == <<"i", "n", "_", "n", "a", "m", "e">>
s_hyphen_tag == <<"a", "-", "b">>
s_under_tag == <<"a", "_", "b">>
s_tagged == <<"t", "a", "g", "g", "e", "d">>
s_count == <<"c", "o", "u", "n", "t">>
s_jia == <<"U+7532">>
s_Xjia == <<"x", "U+7532">>

\* a record with untagged fields (one with an underscore, one for a name
\* that starts with a caseless letter, one that is not exported) and tagged
\* fields (one whose tag has a hyphen, one whose tag names a radix only)
cFoldT ==
    Struct("cFold",
           << Field(<<"N", "a", "m", "e">>, <<>>, T_string),
              Field(<<"I", "n", "_", "N", "a", "m", "e">>, <<>>, T_string),
              Field(<<"X", "U+7532">>, <<>>, T_string),
              Field(s_hidden, <<>>, T_string),
              Field(<<"O", "t", "h", "e", "r">>, s_alias, T_string),
              Field(<<"T", "a", "g", "g", "e", "d">>, s_hyphen_tag, T_string),
              Field(<<"C", "o", "u", "n", "t">>, IntTag(<<"h">>), T_string) >>)

\* a record in which a tagged field takes the name of an untagged one, and a
\* field without fields that can be set beside it
cFoldTagT ==
    Struct("cFoldTag",
           << Field(<<"N", "a", "m", "e">>, s_other, T_string),
              Field(<<"O", "t", "h", "e", "r">>, <<>>, T_string),
              Field(<<"a", "l", "i", "a", "s">>, s_count, T_string) >>)

FoldTypes == {cFoldT, cFoldTagT}

FoldNames ==
    UNION {CaseVariants(w) : w \in {s_name, s_alias, s_other, s_under_name}}
      \cup {s_hidden, s_hyphen_name, s_hyphen_tag, s_under_tag, s_tagged, s_count,
            s_jia, s_Xjia, s_nonexistent, <<>>}

FoldInit ==
    /\ Idle
    /\ \E t \in FoldTypes, n \in FoldNames :
         fn = [op |-> "", in |-> [t |-> t, name |-> n],
               out |-> [idx |-> 0, var |-> NoErr, sect |-> NoErr]]

\* fieldFold on a record of type fn.in.t, and what set returns when the name
\* is that of a variable of the record and when it is that of a section of
\* a config of this type
Call_fieldFold ==
    Called("fieldFold",
           [idx |-> fieldFold(fn.in.t, fn.in.name).idx,
            var |-> setVar(fn.in.t, Zero(fn.in.t), fn.in.name, s_a).err,
            sect |-> set(PtrTo(fn.in.t), Zero(fn.in.t), fn.in.name, <<>>, s_name, s_a).err])

FoldNext == Call_fieldFold

FoldSpec == FoldInit /\ [][FoldNext]_vars

\* the identifier of a gcfg tag: what stands before its first comma
TagIdent(tg) == IF IndexCh(tg, ",") = 0 THEN tg ELSE SubSeq(tg, 1, IndexCh(tg, ",") - 1)

\* the text name as it is compared with Go names
GoName(n) ==
    (IF n # <<>> /\ n[1] \in OtherLetterCh THEN <<"X">> ELSE <<>>)
      \o [i \in 1..Len(n) |-> IF n[i] = "-" THEN "_" ELSE n[i]]

\* the fields of record type t that match the text name n, as stated
Matching(t, n) ==
    {i \in 1..Len(t.fields) :
        /\ t.fields[i].name[1] \in UpperCh
        /\ IF TagIdent(t.fields[i].tag) # <<>>
           THEN ToLower(TagIdent(t.fields[i].tag)) = ToLower(n)
           ELSE ToLower(t.fields[i].name) = ToLower(GoName(n))}

\* C7: the field a name resolves to is one that matches it: a field that can
\* be set whose tag identifier, when it has one, equals the name ignoring
\* case, and whose Go name otherwise equals, ignoring case, the name with
\* '-' replaced by '_' and with 'X' put before a first letter without case.
\* The one field that matches is the field found; when no field matches,
\* none is found, and set returns "invalid variable" for a variable and
\* "invalid section" for a section.
C7_NameResolution ==
    fn.op = "fieldFold"
      => /\ fn.out.idx # 0 => fn.out.idx \in Matching(fn.in.t, fn.in.name)
         /\ \A i \in 1..Len(fn.in.t.fields) :
              FieldMatches(fn.in.t.fields[i], fn.in.name)
                <=> i \in Matching(fn.in.t, fn.in.name)
         /\ Cardinality(Matching(fn.in.t, fn.in.name)) = 1
              => /\ fn.out.idx \in Matching(fn.in.t, fn.in.name)
                 /\ fn.out.var = NoErr
         /\ Matching(fn.in.t, fn.in.name) = {}
              => /\ fn.out.idx = 0
                 /\ fn.out.var = Errorf("invalid variable")
                 /\ fn.out.sect = Errorf("invalid section")

C7_Witness ==
    /\ fn.op = "fieldFold"
    /\ fn.in = [t |-> cFoldT, name |-> s_jia]
    /\ fn.out.idx = 3
    /\ fn.out.var = NoErr

(***************************************************************************)
(* ReadInto of read.go: the parser that reads lines and matches them with  *)
(* regular expressions.  A match is [ok, g1, g2]: whether the expression   *)
(* matches the line, and its first and second group.                       *)
(***************************************************************************)
NoMatch == [ok |-> FALSE, g1 |-> <<>>, g2 |-> <<>>]
Match(g1, g2) == [ok |-> TRUE, g1 |-> g1, g2 |-> g2]

\* index of the first character of s that is in chars, 0 when there is none
IndexAny(s, chars) ==
    IF \E i \in 1..Len(s) : s[i] \in chars
    THEN CHOOSE i \in 1..Len(s) : s[i] \in chars /\ \A j \in 1..(i - 1) : s[j] \notin chars
    ELSE 0

\* \s of the regular expressions
reSpace == {" ", "\t", "\n", "\r", "\f"}
\* the characters \b takes as part of a word
WordCh == UpperCh \cup LowerCh \cup DecDigits \cup {"_"}

NoneIn(s, chars) == \A i \in 1..Len(s) : s[i] \notin chars

\* s without the white space at its ends
TrimLeft(s) ==
    IF \A i \in 1..Len(s) : s[i] \in reSpace THEN <<>>
    ELSE SubSeq(s, CHOOSE i \in 1..Len(s) :
                      s[i] \notin reSpace /\ \A j \in 1..(i - 1) : s[j] \in reSpace,
                Len(s))
TrimRight(s) ==
    IF \A i \in 1..Len(s) : s[i] \in reSpace THEN <<>>
    ELSE SubSeq(s, 1, CHOOSE i \in 1..Len(s) :
                         s[i] \notin reSpace /\ \A j \in (i + 1)..Len(s) : s[j] \in reSpace)
Trim(s) == TrimRight(TrimLeft(s))

\* s from index i on
From(s, i) == SubSeq(s, i, Len(s))

\* reCmnt  ^([^;#"]*)[;#].*$  with i the index of the first ; # or "
reCmntAt(l, i) ==
    IF i # 0 /\ l[i] \in {";", "#"} THEN Match(SubSeq(l, 1, i - 1), <<>>) ELSE NoMatch
reCmnt(l) == reCmntAt(l, IndexAny(l, {";", "#", "\""}))

\* reCmntQ  ^([^;#"]*"[^"]*"[^;#"]*)[;#].*$  with q1 the index of the
\* first ; # or ", q2 that of the next " and i that of the first ; # or "
\* after it
reCmntQAt(l, q1, q2, i) ==
    IF q1 # 0 /\ l[q1] = "\"" /\ q2 # 0 /\ i # 0 /\ l[q1 + q2 + i] \in {";", "#"}
    THEN Match(SubSeq(l, 1, q1 + q2 + i - 1), <<>>)
    ELSE NoMatch
reCmntQ2(l, q1, q2) ==
    reCmntQAt(l, q1, q2,
              IF q2 = 0 THEN 0 ELSE IndexAny(From(l, q1 + q2 + 1), {";", "#", "\""}))
reCmntQ1(l, q1) ==
    reCmntQ2(l, q1, IF q1 = 0 THEN 0 ELSE IndexCh(From(l, q1 + 1), "\""))
reCmntQ(l) == reCmntQ1(l, IndexAny(l, {";", "#", "\""}))

\* read.go lines 82-87: exclude comments
StripComment(l) ==
    IF reCmnt(l).ok THEN reCmnt(l).g1
    ELSE IF reCmntQ(l).ok THEN reCmntQ(l).g1
    ELSE l

\* reBlank  ^\s*$
reBlank(l) == \A i \in 1..Len(l) : l[i] \in reSpace

\* what stands between the brackets of t, trimmed; t is a trimmed line
Bracketed(t) == Trim(SubSeq(t, 2, Len(t) - 1))
IsBracketed(t) == Len(t) >= 2 /\ t[1] = "[" /\ t[Len(t)] = "]"

\* reSect  ^\s*\[\s*([^"\s]*)\s*\]\s*$  on the trimmed line t
reSectT(t) ==
    IF IsBracketed(t) /\ NoneIn(Bracketed(t), reSpace \cup {"\""})
    THEN Match(Bracketed(t), <<>>)
    ELSE NoMatch
reSect(l) == reSectT(Trim(l))

\* reSectSub  ^\s*\[\s*([^"\s]*)\s*"([^"]+)"\s*\]\s*$  on what stands
\* between the brackets (b), with q the index of its first "
reSectSubAt(b, q) ==
    IF /\ q # 0
       /\ Len(b) >= q + 2
       /\ b[Len(b)] = "\""
       /\ NoneIn(SubSeq(b, q + 1, Len(b) - 1), {"\""})
       /\ NoneIn(TrimRight(SubSeq(b, 1, q - 1)), reSpace)
    THEN Match(TrimRight(SubSeq(b, 1, q - 1)), SubSeq(b, q + 1, Len(b) - 1))
    ELSE NoMatch
reSectSubT(t) ==
    IF IsBracketed(t) THEN reSectSubAt(Bracketed(t), IndexCh(Bracketed(t), "\""))
    ELSE NoMatch
reSectSub(l) == reSectSubT(Trim(l))

\* the name of reVar and reVarQ,  ^\s*([^"=\s]+)\s*=  , on the trimmed line
\* t with e the index of its first =
VarName(t, e) == TrimRight(SubSeq(t, 1, e - 1))
HasVarName(t, e) ==
    /\ e # 0
    /\ VarName(t, e) # <<>>
    /\ NoneIn(VarName(t, e), reSpace \cup {"\""})

\* reVar  ^\s*([^"=\s]+)\s*=\s*([^"\s]*)\s*$
reVarAt(t, e) ==
    IF HasVarName(t, e) /\ NoneIn(TrimLeft(From(t, e + 1)), reSpace \cup {"\""})
    THEN Match(VarName(t, e), TrimLeft(From(t, e + 1)))
    ELSE NoMatch
reVar(l) == reVarAt(Trim(l), IndexCh(Trim(l), "="))

\* what stands between the quotes of v
Quoted(v) == SubSeq(v, 2, Len(v) - 1)

\* reVarQ  ^\s*([^"=\s]+)\s*=\s*"([^"\n\\]*)"\s*$  with v what follows the =
reVarQVal(t, e, v) ==
    IF /\ HasVarName(t, e)
       /\ Len(v) >= 2
       /\ v[1] = "\""
       /\ v[Len(v)] = "\""
       /\ NoneIn(Quoted(v), {"\"", "\n", "\\"})
    THEN Match(VarName(t, e), Quoted(v))
    ELSE NoMatch
reVarQAt(t, e) == reVarQVal(t, e, IF e = 0 THEN <<>> ELSE TrimLeft(From(t, e + 1)))
reVarQ(l) == reVarQAt(Trim(l), IndexCh(Trim(l), "="))

\* reVarDflt  ^\s*\b(.*)\b\s*$ : a word boundary after the leading and
\* before the trailing white space
reVarDfltT(t) ==
    IF t # <<>> /\ t[1] \in WordCh /\ t[Len(t)] \in WordCh THEN Match(t, <<>>)
    ELSE NoMatch
reVarDflt(l) == reVarDfltT(Trim(l))

\* read.go lines 78-87: the line that is matched, made of the pieces read
\* before (when this piece is not empty) and without its comment
Assembled(l) == IF Len(l) > 0 THEN lp \o l ELSE l
Content(l) == StripComment(Assembled(l))

\* the lines and the pieces of long lines that an input is made of
L_sect == <<"[">> \o s_section \o <<"]">>
L_sub == <<"[">> \o s_sub \o <<" ">> \o s_quoted_b \o <<"]">>
L_empty == <<"[", "]">>
L_name == s_name
L_nameEq == s_name \o <<"=">> \o s_a
L_nameQ == s_name \o <<" ", "=", " ">> \o s_quoted_b
L_nameCmnt == s_name \o <<" ", ";">> \o s_a
L_nameJunk == s_name \o <<" ">> \o s_a
L_nameOpen == s_name \o <<"=">> \o s_quote \o s_a
L_cmnt == <<"#">> \o s_a
L_blank == <<" ">>
L_eq == <<"=">>
P_na == <<"n", "a">>
L_me == <<"m", "e", "=">> \o s_a

Lines ==
    {L_sect, L_sub, L_empty, L_name, L_nameEq, L_nameQ, L_nameCmnt, L_nameJunk,
     L_nameOpen, L_cmnt, L_blank, L_eq, L_me, <<>>}
Pieces == {P_na}

\* after the step for one line: the line read, what is left of the input
\* and of the pieces, and the section
Lined(rt, e, l, s, ss) ==
    /\ ret' = rt
    /\ err' = e
    /\ tok' = Tok("LINE", Assembled(l))
    /\ left' = left - 1
    /\ lp' = IF Len(l) > 0 THEN <<>> ELSE lp
    /\ sect' = s
    /\ sectsub' = ss

NoSetL == UNCHANGED <<cfgT, cfg, cfg0, nset, last, fn>>

\* ReadLine returns io.EOF, with no data: the empty line is blank and the
\* loop ends
ReadEOF ==
    /\ ret = "run"
    /\ ret' = "nil"
    /\ tok' = EOFtok
    /\ left' = 0
    /\ UNCHANGED <<err, lp, sect, sectsub>>
    /\ NoSetL

\* ReadLine fails with another error
ReadError ==
    /\ ret = "run"
    /\ left > 0
    /\ ret' = "err"
    /\ err' = [typ |-> "io", msg |-> "read", pos |-> FALSE]
    /\ tok' = EOFtok
    /\ left' = left - 1
    /\ UNCHANGED <<lp, sect, sectsub>>
    /\ NoSetL

\* if pre: the piece of a long line is kept
ReadPrefix ==
    /\ ret = "run"
    /\ left > 0
    /\ \E p \in Pieces :
         /\ lp' = lp \o p
         /\ tok' = Tok("PREFIX", p)
    /\ left' = left - 1
    /\ UNCHANGED <<ret, err, sect, sectsub>>
    /\ NoSetL

\* a blank line, or one that holds a comment only
LineBlank ==
    /\ ret = "run"
    /\ left > 0
    /\ \E l \in Lines :
         /\ reBlank(Content(l))
         /\ Lined("run", NoErr, l, sect, sectsub)
    /\ NoSetL

\* a reader whose header without subsection keeps the subsection it had
LineSection_keepsSub ==
    /\ ret = "run"
    /\ left > 0
    /\ \E l \in Lines :
         /\ ~reBlank(Content(l))
         /\ reSect(Content(l)).ok \/ reSectSub(Content(l)).ok
         /\ IF reSect(Content(l)).ok
            THEN IF reSect(Content(l)).g1 = <<>>
                 THEN Lined("err", Errorf("empty section name not allowed"), l, <<>>, <<>>)
                 ELSE Lined("run", NoErr, l, reSect(Content(l)).g1, sectsub)
            ELSE IF reSectSub(Content(l)).g1 = <<>>
                 THEN Lined("err", Errorf("empty section name not allowed"), l,
                            <<>>, reSectSub(Content(l)).g2)
                 ELSE Lined("run", NoErr, l,
                            reSectSub(Content(l)).g1, reSectSub(Content(l)).g2)
    /\ NoSetL

\* s != nil || ss != nil: a section header
LineSection ==
    /\ ret = "run"
    /\ left > 0
    /\ \E l \in Lines :
         /\ ~reBlank(Content(l))
         /\ reSect(Content(l)).ok \/ reSectSub(Content(l)).ok
         /\ IF reSect(Content(l)).ok
            THEN IF reSect(Content(l)).g1 = <<>>
                 THEN Lined("err", Errorf("empty section name not allowed"), l, <<>>, <<>>)
                 ELSE Lined("run", NoErr, l, reSect(Content(l)).g1, <<>>)
            ELSE IF reSectSub(Content(l)).g1 = <<>>
                 THEN Lined("err", Errorf("empty section name not allowed"), l,
                            <<>>, reSectSub(Content(l)).g2)
                 ELSE Lined("run", NoErr, l,
                            reSectSub(Content(l)).g1, reSectSub(Content(l)).g2)
    /\ NoSetL

\* read.go lines 105-118: whether the line is a variable, and its name (g1)
\* and value (g2)
IsVar(c) == reVar(c).ok \/ reVarQ(c).ok \/ reVarDflt(c).ok
VarOf(c) ==
    IF reVar(c).ok THEN reVar(c)
    ELSE IF reVarQ(c).ok THEN reVarQ(c)
    ELSE Match(reVarDflt(c).g1, defaultValue)

\* read.go lines 120-123: the state after set answered r for the variable nv
\* of line l
LineSet(r, l, nv) ==
    /\ cfg' = r.cfg
    /\ nset' = nset + 1
    /\ last' = [sect |-> sect, sub |-> sectsub, name |-> nv.g1, value |-> nv.g2,
                err |-> r.err, panic |-> r.panic]
    /\ UNCHANGED <<cfgT, cfg0, fn>>
    /\ IF r.panic THEN Lined("panic", NoErr, l, sect, sectsub)
       ELSE IF r.err # NoErr THEN Lined("err", r.err, l, sect, sectsub)
       ELSE Lined("run", NoErr, l, sect, sectsub)

LineSetCall(l, nv) == LineSet(set(cfgT, cfg, sect, sectsub, nv.g1, nv.g2), l, nv)

\* v != nil || vq != nil || vd != nil: a variable
LineVariable ==
    /\ ret = "run"
    /\ left > 0
    /\ \E l \in Lines :
         /\ ~reBlank(Content(l))
         /\ ~(reSect(Content(l)).ok \/ reSectSub(Content(l)).ok)
         /\ IsVar(Content(l))
         /\ IF sect = <<>>
            THEN /\ Lined("err", Errorf("variable must be defined in a section"),
                          l, sect, sectsub)
                 /\ NoSetL
            ELSE LineSetCall(l, VarOf(Content(l)))

\* else: invalid line
LineInvalid ==
    /\ ret = "run"
    /\ left > 0
    /\ \E l \in Lines :
         /\ ~reBlank(Content(l))
         /\ ~(reSect(Content(l)).ok \/ reSectSub(Content(l)).ok)
         /\ ~IsVar(Content(l))
         /\ Lined("err", Errorf("invalid line"), l, sect, sectsub)
    /\ NoSetL

LineInit ==
    /\ cfgT \in {PtrTo(ConfigT), ConfigT}
    /\ cfg \in {ZeroConfig, FilledConfig}
    /\ cfg0 = cfg
    /\ tok = Tok("", <<>>)
    /\ left = MaxLines
    /\ lp = <<>>
    /\ sect = <<>>
    /\ sectsub = <<>>
    /\ ret = "run"
    /\ err = NoErr
    /\ nset = 0
    /\ last = NoCall
    /\ fn = NoFn

LineNext ==
    \/ ReadEOF
    \/ ReadError
    \/ ReadPrefix
    \/ LineBlank
    \/ LineSection
    \/ LineVariable
    \/ LineInvalid

LineSpec == LineInit /\ [][LineNext]_vars

\* the name a trimmed line starts with: its characters up to the first one
\* that is white space, =, " or a bracket
NameEnd(t) == IndexAny(t, reSpace \cup {"=", "\"", "[", "]"})
LineName(t) == IF NameEnd(t) = 0 THEN t ELSE SubSeq(t, 1, NameEnd(t) - 1)
\* what follows the name on the line
AfterName(t) == IF NameEnd(t) = 0 THEN <<>> ELSE TrimLeft(From(t, NameEnd(t)))

\* C8: for a line inside a section that starts with a variable name: when
\* nothing but the end of the line or a comment follows the name, one call
\* of set is made, for that name with the value "true"; when something else
\* follows the name that is no '=', ReadInto returns an error and makes no
\* call of set; a call of set is made for a name followed by '=' only.
C8_ImplicitValue ==
    [][ (ret = "run" /\ sect # <<>> /\ tok'.tok = "LINE"
           /\ LineName(Trim(StripComment(tok'.lit))) # <<>>)
          => IF AfterName(Trim(StripComment(tok'.lit))) = <<>>
             THEN /\ SetCalled
                  /\ last'.name = LineName(Trim(StripComment(tok'.lit)))
                  /\ last'.value = s_true
             ELSE IF AfterName(Trim(StripComment(tok'.lit)))[1] # "="
             THEN ret' = "err" /\ ~SetCalled
             ELSE TRUE ]_vars

(***************************************************************************)
(* Quoted values: a STRING literal is handed to unquote and the result to  *)
(* set, as readInto does for the value of a variable (part_005, lines      *)
(* 75-88).  The scanner gives the literal as it stands in the source, with *)
(* its quotes and its escapes (scanner_test.go, tokens).                   *)
(***************************************************************************)
\* a quoted value holds at most MaxItems characters or escapes
MaxItems == 3

s_bs == "\\"
s_dq == "\""

\* what a well-formed quoted value is made of: plain characters and escapes
PlainItems == {<<"a">>, <<" ">>, <<";">>}
EscapeItems == {<<s_bs, s_bs>>, <<s_bs, s_dq>>, <<s_bs, "n">>, <<s_bs, "t">>}
Items == PlainItems \cup EscapeItems

ItemSeqs == UNION {[1..n -> Items] : n \in 0..MaxItems}

\* the source text of a sequence of items
RECURSIVE Flatten(_)
Flatten(is) == IF is = <<>> THEN <<>> ELSE Head(is) \o Flatten(Tail(is))

\* the literal the scanner returns for the quoted value made of items is
QuotedLit(is) == <<s_dq>> \o Flatten(is) \o <<s_dq>>

QuoteInit ==
    /\ Idle
    /\ \E is \in ItemSeqs :
         fn = [op |-> "", in |-> [items |-> is, lit |-> QuotedLit(is)],
               out |-> [err |-> NoErr, v |-> <<>>]]

\* v = unquote(lit); err := set(config, sect, sectsub, n, v) for the string
\* variable Name of section Section: the error and the string stored
ValueStored(r) == [err |-> r.err, v |-> r.cfg[iSection][iName]]
Call_unquote ==
    Called("unquote",
           ValueStored(set(PtrTo(ConfigT), ZeroConfig, s_section, <<>>, s_name,
                           unquote(fn.in.lit).s)))

QuoteNext == Call_unquote

QuoteSpec == QuoteInit /\ [][QuoteNext]_vars

\* what an item stands for
DecodedItem(it) ==
    IF it = <<s_bs, s_bs>> THEN <<s_bs>>
    ELSE IF it = <<s_bs, s_dq>> THEN <<s_dq>>
    ELSE IF it = <<s_bs, "n">> THEN <<"\n">>
    ELSE IF it = <<s_bs, "t">> THEN <<"\t">>
    ELSE it

RECURSIVE Decoded(_)
Decoded(is) == IF is = <<>> THEN <<>> ELSE DecodedItem(Head(is)) \o Decoded(Tail(is))

\* C11: the string stored for a well-formed quoted value is the text between
\* the quotes with every escape decoded (\\ to a backslash, \" to a quote,
\* \n to a newline, \t to a tab) and every other character as it is.
C11_EscapesDecoded ==
    fn.op = "unquote" => (fn.out.err = NoErr /\ fn.out.v = Decoded(fn.in.items))

(***************************************************************************)
(* Quoted strings that are not closed, under Spec.                         *)
(***************************************************************************)
\* a literal that opens a quoted string and does not close it
Unterminated(lit) ==
    /\ lit # <<>>
    /\ lit[1] = s_dq
    /\ Len(lit) = 1 \/ lit[Len(lit)] # s_dq

\* what is left of the unclosed literals when their first and last
\* character are taken off; no other literal of the model gives these texts
Truncations ==
    {SubSeq(l, 2, Len(l) - 1) : l \in {x \in StringLits : Unterminated(x) /\ Len(x) > 1}}

\* C12: a quoted value or subsection name that is not closed makes readInto
\* return an error: no call of set succeeds with the truncated text as its
\* value, readInto does not go on or end with success under a subsection
\* named by the truncated text, and when readInto stops at such a literal it
\* stops with an error, neither with success nor with a panic.
C12_UnterminatedRejected ==
    /\ (nset > 0 /\ last.err = NoErr /\ ~last.panic) => last.value \notin Truncations
    /\ ret \in {"run", "nil"} => sectsub \notin Truncations
    /\ (ret # "run" /\ tok.tok = "STRING" /\ Unterminated(tok.lit)) => ret = "err"

(***************************************************************************)
(* Section headers, under Spec.                                            *)
(***************************************************************************)
\* the syntax errors of a section header, each with the token it is
\* returned at
HeaderError(e, t) ==
    /\ e.pos
    /\ \/ e.msg = "expected section name" /\ t.tok # "IDENT"
       \/ e.msg = "empty subsection name" /\ t.tok = "STRING" /\ unquote(t.lit).s = <<>>
       \/ e.msg = "expected subsection name or right bracket"
            /\ t.tok \notin {"STRING", "RBRACK"}
       \/ e.msg = "expected right bracket" /\ t.tok # "RBRACK"
       \/ e.msg = "expected EOL, EOF, or comment" /\ ~EndsLine(t)

\* C13: a step at a left bracket either accepts the header (a section name
\* that is an identifier, no subsection or one that is not empty, and the
\* end of the line, the end of the input or a comment after the right
\* bracket) or returns a syntax error (no section name, an empty subsection
\* name, no right bracket, something after the header); it calls set in no
\* case, and nothing is done after an error: every step is taken while
\* readInto runs.
C13_HeaderSyntax ==
    [][ /\ ret = "run"
        /\ tok.tok = "LBRACK"
             => /\ nset' = nset
                /\ cfg' = cfg
                /\ \/ /\ ret' = "run"
                      /\ sect' \in IdentLits
                      /\ sectsub' \in {<<>>} \cup {unquote(l).s : l \in StringLits}
                      /\ EndsLine(tok')
                   \/ /\ ret' = "err"
                      /\ HeaderError(err', tok') ]_vars

(***************************************************************************)
(* Comments: a line is handed to the two comment expressions of read.go.   *)
(***************************************************************************)
\* a line of the comment harness holds at most MaxLineLen characters
MaxLineLen == 6

LineChars == {"a", s_dq, ";"}
CommentLines == UNION {[1..n -> LineChars] : n \in 0..MaxLineLen}

CommentInit ==
    /\ Idle
    /\ \E l \in CommentLines : fn = [op |-> "", in |-> l, out |-> <<>>]

\* read.go lines 82-87: exclude comments
Call_StripComment == Called("StripComment", StripComment(fn.in))

CommentNext == Call_StripComment

CommentSpec == CommentInit /\ [][CommentNext]_vars

\* the index of the first ; or # of l, from index i on, that is not inside
\* an open quoted string (inq: a quoted string is open at i); 0 when there
\* is none
RECURSIVE CommentAt(_, _, _)
CommentAt(l, i, inq) ==
    IF i > Len(l) THEN 0
    ELSE IF l[i] = s_dq THEN CommentAt(l, i + 1, ~inq)
    ELSE IF l[i] \in {";", "#"} /\ ~inq THEN i
    ELSE CommentAt(l, i + 1, inq)

\* the line without its comment, as stated
Uncommented(l) ==
    IF CommentAt(l, 1, FALSE) = 0 THEN l ELSE SubSeq(l, 1, CommentAt(l, 1, FALSE) - 1)

\* C14: the line that is interpreted is the line up to the first ; or #
\* that is not inside an open quoted string, whatever follows that character
\* and however many quoted strings stand before it; a ; or # inside a quoted
\* string is kept.
C14_CommentsRemoved ==
    fn.op = "StripComment" => fn.out = Uncommented(fn.in)

(***************************************************************************)
(* Long lines, under LineSpec.                                             *)
(***************************************************************************)
\* C15: the line that is interpreted is made of the pieces read before it
\* and of its last piece, also when that piece is empty, and the same holds
\* at the end of the input; after it no piece is kept for a later line.  A
\* piece that is no last piece is put after the pieces read before.
C15_LongLines ==
    [][ /\ tok'.tok = "PREFIX" => lp' = lp \o tok'.lit
        /\ (tok'.tok \in {"LINE", "EOF"} /\ err'.typ # "io")
             => /\ HasPrefix(tok'.lit, lp)
                /\ lp' = <<>> ]_vars

(***************************************************************************)
(* Subsections of struct sections, panics and positions, under Spec.       *)
(***************************************************************************)
\* C16: a call of set for the struct section Section with a subsection that
\* is not empty returns the error "invalid subsection", whatever the
\* variable (known or not) and the value; it does not panic and leaves the
\* destination as it was.
C16_InvalidSubsection ==
    [][ (SetCalled /\ cfgT = PtrTo(ConfigT) /\ last'.sect = s_section /\ last'.sub # <<>>)
          => /\ ~last'.panic
             /\ last'.err = Errorf("invalid subsection")
             /\ ret' = "err"
             /\ cfg' = cfg ]_vars

C16_Witness ==
    /\ ret = "err"
    /\ err = Errorf("invalid subsection")
    /\ last.sect = s_section
    /\ last.sub = s_a
    /\ last.name = s_name
    /\ cfg = FilledConfig

\* C17: readInto panics only for a defect of the destination: when it
\* panics, it is in a call of set for a config that is no pointer to a
\* struct, and every call of set for such a config panics; no input text
\* makes readInto panic when the destination is sound.
C17_PanicOnlyForSchema ==
    /\ ret = "panic" => (nset > 0 /\ last.panic /\ cfgT # PtrTo(ConfigT))
    /\ (nset > 0 /\ cfgT # PtrTo(ConfigT)) => (last.panic /\ ret = "panic")

\* C18: every error readInto returns carries the position in the source of
\* the text it is about.
C18_ErrorsHavePosition ==
    ret = "err" => err.pos

(***************************************************************************)
(* set on destinations of every shape: SchemaSpec calls set once for a     *)
(* config whose one section field, Section, has one of the types below.    *)
(***************************************************************************)
SectionTypes ==
    { cSubsS1T,
      MapOf(T_string, PtrTo(cSubsS1T)),
      MapOf(T_int, PtrTo(cSubsS1T)),
      MapOf(T_string, cSubsS1T),
      MapOf(T_string, PtrTo(T_string)),
      T_string,
      PtrTo(cSubsS1T),
      SliceOf(cSubsS1T) }
SchemaOf(x) == Struct("Config", << Field(<<"S", "e", "c", "t", "i", "o", "n">>, <<>>, x) >>)
SchemaTypes ==
    {PtrTo(SchemaOf(x)) : x \in SectionTypes} \cup {SchemaOf(cSubsS1T), PtrTo(T_string)}

SchemaInit ==
    /\ Idle
    /\ \E ct \in SchemaTypes, sc \in {s_section, s_nonexistent}, sb \in {<<>>, s_a},
          n \in {s_name, s_nonexistent}, v \in {s_a, s_b} :
          fn = [op |-> "",
                in |-> [ct |-> ct, sect |-> sc, sub |-> sb, name |-> n, value |-> v],
                out |-> SetResult(<<>>, NoErr, FALSE)]

Call_set ==
    Called("set", set(fn.in.ct, Zero(IF fn.in.ct.kind = "ptr" THEN Elem(fn.in.ct) ELSE fn.in.ct),
                      fn.in.sect, fn.in.sub, fn.in.name, fn.in.value))
SchemaNext == Call_set
SchemaSpec == SchemaInit /\ [][SchemaNext]_vars

\* the section field of sound shape: a struct, or a map from string to
\* pointer to struct
SoundSection(x) ==
    \/ x.kind = "struct"
    \/ x.kind = "map" /\ x.elem[2].kind = "string" /\ x.elem[1].kind = "ptr"
         /\ x.elem[1].elem[1].kind = "struct"

\* set panics exactly when the config is no pointer to a struct or the
\* section names a field of unsound shape; a panic is never an error
\* returned
SchemaPanics ==
    fn.op = "set" =>
        /\ fn.out.panic <=>
             \/ fn.in.ct.kind # "ptr"
             \/ fn.in.ct.elem[1].kind # "struct"
             \/ /\ fn.in.sect = s_section
                /\ ~SoundSection(fn.in.ct.elem[1].fields[1].type)
        /\ fn.out.panic => fn.out.err = NoErr

(***************************************************************************)
(* The chain of setters on targets of every kind: CoerceSpec runs the loop *)
(* of set once for a target type and a value.                              *)
(***************************************************************************)
\* math/big: *big.Int has an UnmarshalText method
T_bigIntTU == WithTU(T_bigInt, "big.Int")
\* bool.go: gbool
T_gbool == WithTU(Named("gbool", T_bool), "gbool")
\* read_test.go: unmarshalable
T_unmarshalable == WithTU(Named("unmarshalable", T_string), "unmarshalable")
\* a named string type without UnmarshalText
T_word == Named("word", T_string)
CoerceTypes ==
    {T_string, T_bool, T_int, T_FileMode, T_bigIntTU, T_gbool, T_unmarshalable,
     T_word, T_nonMulti}

s_a_b == <<"a", " ", "b">>
s_1A == <<"1", "A">>
s_0p2 == <<"0", ".", "2">>
s_1e3 == <<"1", "e", "3">>
s_error == <<"e", "r", "r", "o", "r">>
CoerceTexts == {s_a, s_a_b, <<>>, s_true, s_10, s_010, s_1A, s_0p2, s_1e3, s_error}

CoerceInit ==
    /\ Idle
    /\ \E t \in CoerceTypes, val \in CoerceTexts :
          fn = [op |-> "", in |-> [t |-> t, val |-> val],
                out |-> [r |-> [err |-> NoErr, v |-> Zero(t)], by |-> 0]]

Call_setters ==
    Called("setters",
           [r |-> runSetters(1, fn.in.t, Zero(fn.in.t), fn.in.val, EmptyTag),
            by |-> decidedBy(1, fn.in.t, Zero(fn.in.t), fn.in.val, EmptyTag)])
CoerceNext == Call_setters
CoerceSpec == CoerceInit /\ [][CoerceNext]_vars

\* the strategy the priority order of the claim chooses for target type t:
\* 2 text-unmarshal, 3 boolean, string or integer, 4 generic scan
ByPriority(t) ==
    IF t.tu # "" THEN 2
    ELSE IF t.kind = "bool" \/ t.kind \in IntKinds \/ t = T_string THEN 3
    ELSE 4

\* the answer of the strategy in place k
AnswerOf(k, t, val) ==
    CASE k = 1 -> intSetter(t, Zero(t), val, EmptyTag)
      [] k = 2 -> UnmarshalText(t, Zero(t), val)
      [] k = 3 -> (IF t.kind = "bool" THEN ParseBool(Zero(t), val)
                   ELSE IF t.kind = "string" THEN [err |-> NoErr, v |-> val]
                   ELSE intSetter(t, Zero(t), val, EmptyTag))
      [] OTHER -> scanSetter(t, Zero(t), val, EmptyTag)

IsIntTarget(t) == t.kind \in IntKinds \/ t.name = "big.Int"
\* a whole numeral: sign and decimal digits, or a radix prefix and digits
IsNumeral(val) ==
    /\ val # <<>>
    /\ \A i \in 1..Len(val) : val[i] \in HexDigits \cup {"x", "X", "+", "-"}
    /\ val[Len(val)] \in HexDigits

\* C20: for an integer target and for a target set by the generic scan, the
\* result is without error only if the whole value was consumed: the empty
\* value, 1A, 0.2 and 1e3 for an integer, and a value with text after the
\* first word for a scanned target all give an error.
C20_WholeValue ==
    fn.op = "setters" =>
        /\ IsIntTarget(fn.in.t) =>
             /\ fn.out.r.err = NoErr => IsNumeral(fn.in.val)
             /\ fn.in.val \in {<<>>, s_1A, s_0p2, s_1e3} => fn.out.r.err # NoErr
        /\ (fn.out.by = 4 /\ ~IsIntTarget(fn.in.t)) =>
             /\ fn.out.r.err = NoErr => (fn.in.val # <<>> /\ fn.out.r.v = fn.in.val)
             /\ fn.in.val \in {<<>>, s_a_b} => fn.out.r.err # NoErr

C20_Witness ==
    /\ fn.op = "setters"
    /\ fn.in.t = T_word
    /\ fn.in.val = s_a_b
    /\ fn.out.by = 4
    /\ fn.out.r.err = Errorf("failed to parse: extra characters")

\* C21: a target of kind string without the text-unmarshal capability, the
\* built-in string or a named string type, is set to the value as it is,
\* without error, for every value: the empty one and those with spaces too.
C21_StringVerbatim ==
    (fn.op = "setters" /\ fn.in.t.kind = "string" /\ fn.in.t.tu = "")
        => fn.out.r = [err |-> NoErr, v |-> fn.in.val]

\* the config of the optional-section example: Section is a pointer to a
\* struct
OptionalT == PtrTo(SchemaOf(PtrTo(cSubsS1T)))

\* C22: for a section field that is a pointer to a struct, a call of set for
\* a variable of that section allocates the struct and stores the value
\* without error; a call that names another section leaves the pointer nil.
C22_OptionalSection ==
    (fn.op = "set" /\ fn.in.ct = OptionalT /\ fn.in.sub = <<>> /\ fn.in.name = s_name) =>
        IF fn.in.sect = s_section
        THEN /\ ~fn.out.panic
             /\ fn.out.err = NoErr
             /\ fn.out.cfg = << Ref(<<fn.in.value, FALSE>>) >>
        ELSE /\ ~fn.out.panic
             /\ fn.out.cfg = << NilPtr >>

(***************************************************************************)
(* Idxer (idx.go).  fn.in holds the Idxer: its map of names and whether    *)
(* the map was made; fn.out holds the handle of the last call of Idx and   *)
(* the answers Idx gave since the last add, as pairs of name and handle.   *)
(***************************************************************************)
\* idx.go: Idx{}, the zero handle, and Idx{in}
Idx0 == [n |-> <<>>]
IdxOf(in) == [n |-> in]

\* the names the calls are made with
IdxNames == {s_a, s_A, s_b, s_nonexistent, <<>>}

\* idx.go Idxer.Idx: the range over the map visits the names in any order,
\* so any name equal to n ignoring case may be the one returned
IdxerIdx(names, made, n) ==
    IF ~made THEN {Idx0}
    ELSE IF \E in \in names : EqualFold(n, in)
    THEN {IdxOf(in) : in \in {x \in names : EqualFold(n, x)}}
    ELSE {Idx0}

IdxInit ==
    /\ Idle
    /\ fn = [op |-> "",
             in |-> [names |-> {}, made |-> FALSE, n |-> <<>>],
             out |-> [h |-> Idx0, ans |-> {}]]

\* idx.go Idxer.add
Idxer_add ==
    /\ \E n \in IdxNames :
          fn' = [op |-> "add",
                 in |-> [names |-> fn.in.names \cup {n}, made |-> TRUE, n |-> n],
                 out |-> [h |-> Idx0, ans |-> {}]]
    /\ UNCHANGED parserVars

Idxer_Idx ==
    /\ \E n \in IdxNames : \E h \in IdxerIdx(fn.in.names, fn.in.made, n) :
          fn' = [op |-> "Idx",
                 in |-> [fn.in EXCEPT !.n = n],
                 out |-> [h |-> h, ans |-> fn.out.ans \cup {<<n, h>>}]]
    /\ UNCHANGED parserVars

IdxNext == Idxer_add \/ Idxer_Idx
IdxSpec == IdxInit /\ [][IdxNext]_vars

\* C23: the answers of Idx for one Idxer agree for names that are equal
\* ignoring case, and the answers for one name are all the same, whatever
\* names were added before.
C23_IdxWellDefined ==
    \A p \in fn.out.ans, q \in fn.out.ans :
        EqualFold(p[1], q[1]) => p[2] = q[2]

\* C24: when no name held equals n ignoring case, the handle Idx returns for
\* n is not the handle of any name held.
C24_NoMatchNoHandle ==
    (fn.op = "Idx" /\ ~\E in \in fn.in.names : EqualFold(fn.in.n, in))
        => fn.out.h \notin {IdxOf(in) : in \in fn.in.names}

(***************************************************************************)
(* ScanEnum (part_013, gcfg.go).  The reader is a text of runes that       *)
(* answers io.EOF at its end; the result holds the value, the error and    *)
(* the number of runes consumed (a rune unread is not consumed).           *)
(***************************************************************************)
MaxEnumLen == 3
EnumChars == {"o", "n", "f", "1", "x", "O"}
EnumTexts == UNION {[1..n -> EnumChars] : n \in 0..MaxEnumLen}

\* gcfg.go: gboolValues
gboolValues == [s \in gboolTrue \cup gboolFalse |-> s \in gboolTrue]

\* part_013: strEq
strEq(s1, s2, fold) == (fold /\ EqualFold(s1, s2)) \/ (~fold /\ s1 = s2)

NilValue == "nil"
errEOF == [typ |-> "io", msg |-> "EOF", pos |-> FALSE]
EnumResult(v, e, read) == [v |-> v, err |-> e, read |-> read]

\* part_013 lines 119-123: the keys that stay potential after the runes rd:
\* a key is deleted only if it is longer than rd and rd is not its prefix
keysLeft(rd, keys, fold) ==
    {s \in keys : ~(Len(rd) < Len(s) /\ ~strEq(rd, SubSeq(s, 1, Len(rd)), fold))}

\* part_013 lines 111-129: the loop of ScanEnum once pos - 1 runes are read
RECURSIVE ScanEnumFrom(_, _, _, _, _)
ScanEnumFrom(input, pos, keys, values, fold) ==
    IF pos > Len(input) THEN EnumResult(NilValue, errEOF, Len(input))
    ELSE IF \E s \in keys : strEq(SubSeq(input, 1, pos), s, fold)
    THEN EnumResult(values[CHOOSE s \in keys : strEq(SubSeq(input, 1, pos), s, fold)],
                    NoErr, pos)
    ELSE IF keysLeft(SubSeq(input, 1, pos), keys, fold) = {}
    THEN EnumResult(NilValue, Errorf("unsupported value"), pos - 1)
    ELSE ScanEnumFrom(input, pos + 1, keysLeft(SubSeq(input, 1, pos), keys, fold),
                      values, fold)

ScanEnum(input, values, fold) == ScanEnumFrom(input, 1, DOMAIN values, values, fold)

EnumInit ==
    /\ Idle
    /\ \E input \in EnumTexts, fold \in BOOLEAN :
          fn = [op |-> "", in |-> [input |-> input, fold |-> fold],
                out |-> EnumResult(NilValue, NoErr, 0)]

Call_ScanEnum == Called("ScanEnum", ScanEnum(fn.in.input, gboolValues, fn.in.fold))
EnumNext == Call_ScanEnum
EnumSpec == EnumInit /\ [][EnumNext]_vars

\* the runes rd are a key / can still become a key
IsKey(rd, fold) == \E s \in DOMAIN gboolValues : strEq(rd, s, fold)
CanBeKey(rd, fold) ==
    \E s \in DOMAIN gboolValues :
        Len(rd) <= Len(s) /\ strEq(rd, SubSeq(s, 1, Len(rd)), fold)
\* the runes at which the scan is decided: the first ones that are a key or
\* can no longer become one
Decisive(input, fold) ==
    {k \in 1..Len(input) : ~CanBeKey(SubSeq(input, 1, k), fold)
                              \/ IsKey(SubSeq(input, 1, k), fold)}
FirstOf(ks) == CHOOSE k \in ks : \A j \in ks : k <= j

\* C25: ScanEnum answers the value of the key as soon as the runes read are
\* a key, with nothing read beyond it; it answers an error with a nil value
\* at the first rune after which the runes read cannot become a key, with
\* that rune unread; when the text ends before either, it answers the error
\* of the reader with a nil value.
C25_ScanEnum ==
    fn.op = "ScanEnum" =>
        IF Decisive(fn.in.input, fn.in.fold) = {}
        THEN fn.out = EnumResult(NilValue, errEOF, Len(fn.in.input))
        ELSE IF IsKey(SubSeq(fn.in.input, 1, FirstOf(Decisive(fn.in.input, fn.in.fold))),
                      fn.in.fold)
        THEN /\ fn.out.err = NoErr
             /\ fn.out.read = FirstOf(Decisive(fn.in.input, fn.in.fold))
             /\ fn.out.v = \E s \in gboolTrue :
                    strEq(SubSeq(fn.in.input, 1, fn.out.read), s, fn.in.fold)
        ELSE /\ fn.out.v = NilValue
             /\ fn.out.err = Errorf("unsupported value")
             /\ fn.out.read = FirstOf(Decisive(fn.in.input, fn.in.fold)) - 1

(***************************************************************************)
(* One call of set on a destination that already holds values: SetSpec.    *)
(* Besides the config of the parser model there is one whose variables are *)
(* of a named string type, which only the generic scan can set.            *)
(***************************************************************************)
s_ptr == <<"p", "t", "r">>
cWordsT ==
    Struct("cWords",
           << Field(<<"N", "a", "m", "e">>, <<>>, T_word),
              Field(<<"M", "u", "l", "t", "i">>, <<>>, SliceOf(T_word)),
              Field(<<"P", "t", "r">>, <<>>, PtrTo(T_word)) >>)
WordConfigT == SchemaOf(cWordsT)
FilledWords == << <<s_b, <<s_b>>, Ref(s_b)>> >>
\* as FilledWords, with the pointer still nil
HalfFilledWords == << <<s_b, <<s_b>>, NilPtr>> >>

SetDests ==
    { <<PtrTo(ConfigT), ZeroConfig>>, <<PtrTo(ConfigT), FilledConfig>>,
      <<PtrTo(WordConfigT), Zero(WordConfigT)>>, <<PtrTo(WordConfigT), FilledWords>>,
      <<PtrTo(WordConfigT), HalfFilledWords>> }

SetInit ==
    /\ Idle
    /\ \E dst \in SetDests, sc \in {s_section, s_sub, s_nonexistent},
          sb \in {<<>>, s_a, s_b},
          n \in {s_name, s_bool, s_multi, s_ptr, s_nonexistent},
          v \in {s_a, s_a_b, <<>>, s_maybe, s_true} :
          fn = [op |-> "",
                in |-> [ct |-> dst[1], c |-> dst[2], sect |-> sc, sub |-> sb,
                        name |-> n, value |-> v],
                out |-> SetResult(dst[2], NoErr, FALSE)]

Call_setOn ==
    Called("setOn", set(fn.in.ct, fn.in.c, fn.in.sect, fn.in.sub, fn.in.name, fn.in.value))
SetNext == Call_setOn
SetSpec == SetInit /\ [][SetNext]_vars

\* the type of the section field the call names (the first field for
\* "section", the second for "sub"), and whether the config has it
SectIdx(in) == IF in.sect = s_section THEN 1 ELSE IF in.sect = s_sub THEN 2 ELSE 0
HasSect(in) == SectIdx(in) \in 1..Len(Elem(in.ct).fields)
SectType(in) == Elem(in.ct).fields[SectIdx(in)].type
\* the record the call addresses, in destination c: the struct section, or
\* the entry of the subsection (a zero record when the map has none)
RecordIn(c, in) ==
    IF SectType(in).kind = "struct" THEN c[SectIdx(in)]
    ELSE IF in.sub \in DOMAIN c[SectIdx(in)].m THEN c[SectIdx(in)].m[in.sub]
    ELSE Zero(Elem(Elem(SectType(in))))
RecordType(in) ==
    IF SectType(in).kind = "struct" THEN SectType(in) ELSE Elem(Elem(SectType(in)))
\* the call reached a variable: the section is there, the subsection is
\* allowed, and the name is one of the record
Addressed(in) ==
    /\ HasSect(in)
    /\ SectType(in).kind = "struct" => in.sub = <<>>
    /\ fieldFold(RecordType(in), in.name).idx # 0

\* C26: when set returns a coercion error, the variable addressed holds what
\* it held before the call: a single value is kept, a slice keeps its
\* elements, a nil pointer stays nil.
C26_FailedSetKeepsValue ==
    (fn.op = "setOn" /\ Addressed(fn.in) /\ fn.out.err # NoErr)
        => RecordIn(fn.out.cfg, fn.in) = RecordIn(fn.in.c, fn.in)

C28_NeverPanics ==
    cfgT = PtrTo(ConfigT) => ret # "panic"

\* C29: under LineSpec, a header line replaces the section and the
\* subsection, the subsection by the empty string when the header has none;
\* a blank line and a comment line change neither, and nothing but a header
\* line changes them; a call of set gets the section and the subsection as
\* they stand.
C29_CurrentSection ==
    [][ /\ (tok'.tok = "LINE" /\ tok'.lit = L_sect)
          => (sect' = s_section /\ sectsub' = <<>>)
        /\ (tok'.tok = "LINE" /\ tok'.lit = L_sub)
          => (sect' = s_sub /\ sectsub' = s_b)
        /\ (tok'.tok = "LINE" /\ tok'.lit \in {L_cmnt, L_blank, <<>>})
          => (sect' = sect /\ sectsub' = sectsub /\ nset' = nset)
        /\ (sect' # sect \/ sectsub' # sectsub)
          => (tok'.tok = "LINE" /\ tok'.lit \in {L_sect, L_sub, L_empty})
        /\ SetCalled
          => (last'.sect = sect /\ last'.sub = sectsub /\ sect # <<>>) ]_vars

C29_Witness ==
    /\ cfg0 = ZeroConfig
    /\ nset = 2
    /\ ret = "run"
    /\ s_b \in DOMAIN cfg[iSub].m
    /\ cfg[iSub].m[s_b][iName] = s_a
    /\ cfg[iSection][iName] = s_a
    /\ last.sect = s_section
    /\ last.sub = <<>>

(***************************************************************************)
(* Termination of readInto.  The loop of part_005 has no other scheduling  *)
(* than its own next iteration, so the step that is enabled is taken:      *)
(* weak fairness of Next.                                                  *)
(***************************************************************************)
FairSpec == Spec /\ WF_vars(Next)

\* the tokens not yet consumed: those still to scan and the one at hand,
\* unless that one is the end of the input
Remaining == left + (IF tok.tok = "EOF" THEN 0 ELSE 1)
\* every iteration returns or consumes a token
Consumes == [][ret = "run" => (ret' # "run" \/ Remaining' < Remaining)]_vars
\* nil is returned at the end of the input and only there, with no error
\* of the parser or of set before it
NilAtEOF ==
    /\ [](ret = "nil" => (tok.tok = "EOF" /\ err = NoErr
                            /\ (nset > 0 => (last.err = NoErr /\ ~last.panic))))
    /\ [][(ret = "run" /\ tok.tok = "EOF") => ret' = "nil"]_vars
\* an error returned is the first one: nothing follows it
FirstError == [][ret # "err"]_vars /\ [](ret = "err" => err # NoErr)
\* the loop ends
Ends == <>(ret # "run")
\* and it ends by a return, of nil or of an error, when the destination is
\* sound
Returns == [](ret # "run" => (ret \in {"nil", "err"} \/ cfgT # PtrTo(ConfigT)))

\* C30: readInto terminates on every finite input: every iteration returns
\* or consumes at least one token, so the loop ends; it returns nil exactly
\* when it reaches the end of the input with no error before, and otherwise
\* it returns the first error.
C30_Terminates == Consumes /\ NilAtEOF /\ FirstError /\ Returns /\ Ends

====
